---- MODULE Spec2Model ----
(***************************************************************************)
(* A model of the movie catalogue: the MovieManager business logic         *)
(* (movie_manager.py) over its persistence collaborator                    *)
(* (movie_storage.py).                                                     *)
(*                                                                         *)
(* Representation.                                                         *)
(*  - A Python str is a sequence of one-character strings                  *)
(*    ("7.5" is <<"7", ".", "5">>), so that strip, split, lower, isdigit,  *)
(*    int() and float() are computed character by character.               *)
(*  - A Python dict with str keys (self.movies) is a sequence of           *)
(*    <<key, value>> pairs with distinct keys, in insertion order.         *)
(*  - A movie record (the inner dict) is a TLA+ function from field name   *)
(*    to value; a field that is absent from the dict is absent from the    *)
(*    DOMAIN.                                                              *)
(*  - A float rating is the integer number of tenths (7.5 is 75).          *)
(*  - Every method of MovieManager is an operator from the object's state  *)
(*    (self.movies, the file) and the arguments to an outcome record       *)
(*    [movies, disk, ret, io]: the new self.movies, the new file, what the *)
(*    caller observes, and the storage calls that were made.               *)
(***************************************************************************)
EXTENDS Integers, Sequences, FiniteSets, TLC

VARIABLES movies, disk, last, faulted, other

vars == <<movies, disk, last, faulted, other>>

(***************************************************************************)
(* Bounds of the model.                                                    *)
(***************************************************************************)
\* The add operations are explored while the collection holds fewer than
\* MaxMovies entries.
MaxMovies == 2

(***************************************************************************)
(* Python values.                                                          *)
(***************************************************************************)
\* Python's None, where a str (a sequence of characters) may also stand.
None == <<"None">>

\* The empty str.
EmptyStr == <<>>

Digits == {"0", "1", "2", "3", "4", "5", "6", "7", "8", "9"}

\* Characters for which str.isdigit() is true and that are not decimal
\* digits: int() rejects them.
NonDecimalDigits == {"^2"}

Whitespace == {" "}

DigitVal(c) ==
    CASE c = "0" -> 0 [] c = "1" -> 1 [] c = "2" -> 2 [] c = "3" -> 3
      [] c = "4" -> 4 [] c = "5" -> 5 [] c = "6" -> 6 [] c = "7" -> 7
      [] c = "8" -> 8 [] c = "9" -> 9

\* str.lower() on one character, for the letters the model's strings use.
LowerChar(c) ==
    CASE c = "A" -> "a" [] c = "B" -> "b" [] c = "C" -> "c" [] c = "D" -> "d"
      [] c = "E" -> "e" [] c = "F" -> "f" [] c = "I" -> "i" [] c = "N" -> "n"
      [] c = "R" -> "r" [] c = "T" -> "t" [] c = "Y" -> "y"
      [] OTHER -> c

\* str.lower()
Lower(s) == [i \in DOMAIN s |-> LowerChar(s[i])]

\* s[a..b], empty when a > b
Slice(s, a, b) == IF a > b THEN <<>> ELSE SubSeq(s, a, b)

\* str.strip(): drop the leading and trailing whitespace.
Strip(s) ==
    LET keep == {i \in DOMAIN s : s[i] \notin Whitespace}
    IN  IF keep = {} THEN <<>>
        ELSE LET lo == CHOOSE i \in keep : \A j \in keep : i <= j
                 hi == CHOOSE i \in keep : \A j \in keep : j <= i
             IN  SubSeq(s, lo, hi)

\* str.startswith(p)
StartsWith(s, p) == Len(s) >= Len(p) /\ SubSeq(s, 1, Len(p)) = p

\* p in s, for two str
Contains(s, p) ==
    \E i \in 1..(Len(s) - Len(p) + 1) : SubSeq(s, i, i + Len(p) - 1) = p

\* str.isdigit(): non-empty and every character is a digit character.
IsDigit(s) == Len(s) > 0 /\ \A i \in DOMAIN s : s[i] \in Digits \cup NonDecimalDigits

\* Non-empty and every character a decimal digit 0..9.
AllDecimal(s) == Len(s) > 0 /\ \A i \in DOMAIN s : s[i] \in Digits

RECURSIVE DecimalValue(_)
DecimalValue(s) ==
    IF s = <<>> THEN 0
    ELSE 10 * DecimalValue(SubSeq(s, 1, Len(s) - 1)) + DigitVal(s[Len(s)])

RECURSIVE Pow10(_)
Pow10(n) == IF n <= 0 THEN 1 ELSE 10 * Pow10(n - 1)

\* An optional sign removed.
Unsigned(s) == IF Len(s) > 0 /\ s[1] \in {"+", "-"} THEN Tail(s) ELSE s

Sign(s) == IF Len(s) > 0 /\ s[1] = "-" THEN -1 ELSE 1

\* int(s) for a str: surrounding whitespace and a sign are allowed, then
\* decimal digits only; anything else raises ValueError.
IntOk(s) == AllDecimal(Unsigned(Strip(s)))

IntValue(s) == Sign(Strip(s)) * DecimalValue(Unsigned(Strip(s)))

\* The position of the exponent marker of a float literal, 0 when none.
ExpPos(s) ==
    IF \E i \in DOMAIN s : s[i] \in {"e", "E"}
    THEN CHOOSE i \in DOMAIN s : s[i] \in {"e", "E"}
                                 /\ \A j \in 1..(i - 1) : s[j] \notin {"e", "E"}
    ELSE 0

Mantissa(s) == IF ExpPos(s) = 0 THEN s ELSE Slice(s, 1, ExpPos(s) - 1)

Exponent(s) == IF ExpPos(s) = 0 THEN <<>> ELSE Slice(s, ExpPos(s) + 1, Len(s))

DotPos(s) ==
    IF \E i \in DOMAIN s : s[i] = "."
    THEN CHOOSE i \in DOMAIN s : s[i] = "." /\ \A j \in 1..(i - 1) : s[j] # "."
    ELSE 0

IntPart(s) == IF DotPos(s) = 0 THEN s ELSE Slice(s, 1, DotPos(s) - 1)

FracPart(s) == IF DotPos(s) = 0 THEN <<>> ELSE Slice(s, DotPos(s) + 1, Len(s))

\* digits [. [digits]]  or  . digits
MantissaOk(s) ==
    /\ IntPart(s) = <<>> \/ AllDecimal(IntPart(s))
    /\ FracPart(s) = <<>> \/ AllDecimal(FracPart(s))
    /\ IntPart(s) # <<>> \/ FracPart(s) # <<>>

\* The words float() accepts besides decimal literals, in any letter case.
FloatWords ==
    { <<"i", "n", "f">>, <<"n", "a", "n">>,
      <<"i", "n", "f", "i", "n", "i", "t", "y">> }

\* float(s) for a str does not raise ValueError: surrounding whitespace, a
\* sign, then inf / infinity / nan or a decimal literal with an optional
\* exponent.
FloatOk(s) ==
    LET u == Unsigned(Strip(s))
    IN  \/ Lower(u) \in FloatWords
        \/ /\ MantissaOk(Mantissa(u))
           /\ ExpPos(u) = 0 \/ AllDecimal(Unsigned(Exponent(u)))

\* float(s) in tenths, for a decimal literal (digits after the first
\* fractional digit are below the model's resolution).
FloatValue(s) ==
    LET u == Unsigned(Strip(s))
        m == Mantissa(u)
        f == FracPart(m)
        tenths == 10 * DecimalValue(IntPart(m))
                    + (IF f = <<>> THEN 0 ELSE DigitVal(f[1]))
        e == IF ExpPos(u) = 0 THEN 0 ELSE IntValue(Exponent(u))
    IN  Sign(Strip(s)) * (IF e >= 0 THEN tenths * Pow10(e) ELSE tenths \div Pow10(-e))

\* The positions of the commas of s, and the pieces between them.
Commas(s) == {i \in DOMAIN s : s[i] = ","}

RECURSIVE Split(_)
\* str.split(","): always at least one piece; the empty str gives [""].
Split(s) ==
    IF Commas(s) = {} THEN <<s>>
    ELSE LET i == CHOOSE i \in Commas(s) : \A j \in Commas(s) : i <= j
         IN  <<Slice(s, 1, i - 1)>> \o Split(Slice(s, i + 1, Len(s)))

\* bool(x) for a str or None: None and "" are falsy.
Truthy(x) == x # None /\ x # EmptyStr

(***************************************************************************)
(* dict                                                                    *)
(***************************************************************************)
EmptyDict == <<>>

\* dict.keys()
Keys(m) == {m[i][1] : i \in DOMAIN m}

\* key in dict
Has(m, k) == k \in Keys(m)

\* dict[key], for a key that is present
Get(m, k) == m[CHOOSE i \in DOMAIN m : m[i][1] = k][2]

\* dict[key] = value: replaces in place, or inserts at the end.
SetItem(m, k, v) ==
    IF Has(m, k)
    THEN [i \in DOMAIN m |-> IF m[i][1] = k THEN <<k, v>> ELSE m[i]]
    ELSE Append(m, <<k, v>>)

\* A del that removes the oldest entry instead of the entry of the key.
DelItemFirst(m, k) == Tail(m)

\* del dict[key], for a key that is present
DelItem(m, k) == SelectSeq(m, LAMBDA e : e[1] # k)

\* dict.get(key) on a record-like payload: None when the key is absent.
PayloadGet(d, k) == IF k \in DOMAIN d THEN d[k] ELSE None

\* dict.get(key, default)
PayloadGetDefault(d, k, default) == IF k \in DOMAIN d THEN d[k] ELSE default

(***************************************************************************)
(* movie_storage.py                                                        *)
(***************************************************************************)
\* What MOVIES_FILE can be: no file, a file whose content json.load rejects
\* (empty, truncated, not JSON), or a file holding a JSON text.
FileAbsent == [kind |-> "absent"]

FileCorrupt == [kind |-> "corrupt"]

FileJson(text) == [kind |-> "json", text |-> text]

\* A file whose content is valid JSON but no object: the array ["x"].
FileJsonArray == [kind |-> "json_array"]

\* A file whose bytes the text decoding of open(MOVIES_FILE, "r") rejects.
FileUndecodable == [kind |-> "undecodable"]

\* What json.load builds from the array ["x"]: a list of one str.
JsonArray == << <<"x">> >>

\* The order in which json.dump writes the fields of a record.
FieldOrder == <<"rating", "year", "description", "actors">>

\* A json.dump that leaves out the members whose value is None.
JsonDumpRecordSkipNone(r) ==
    LET present == SelectSeq(FieldOrder, LAMBDA f : f \in DOMAIN r /\ (f = "description" => r[f] # None))
    IN  [i \in DOMAIN present |-> <<present[i], r[present[i]]>>]

\* The JSON object json.dump writes for one record: its members in order.
JsonDumpRecord(r) ==
    LET present == SelectSeq(FieldOrder, LAMBDA f : f \in DOMAIN r)
    IN  [i \in DOMAIN present |-> <<present[i], r[present[i]]>>]

\* json.dump(movies): the members <<title, object>> in the dict's order.
JsonDump(m) == [i \in DOMAIN m |-> <<m[i][1], JsonDumpRecord(m[i][2])>>]

\* The dict json.load builds from one JSON object of a record.
JsonLoadRecord(o) ==
    [f \in {o[i][1] : i \in DOMAIN o} |->
        o[CHOOSE i \in DOMAIN o : o[i][1] = f /\ \A j \in DOMAIN o : o[j][1] = f => j <= i][2]]

RECURSIVE JsonLoad(_)
\* json.load: the members are inserted one by one (a repeated key keeps its
\* first position and its last value).
JsonLoad(t) ==
    IF t = <<>> THEN EmptyDict
    ELSE SetItem(JsonLoad(SubSeq(t, 1, Len(t) - 1)), t[Len(t)][1], JsonLoadRecord(t[Len(t)][2]))

\* No exception.
NoExc == "none"

\* How a call of save_movies can go: the write completes, open() fails (the
\* file is left as it was), or the write fails after open() truncated the
\* file.
SaveModes == {"ok", "open_fails", "write_fails"}

\* What get_movies() returns: whatever json.load builds from the content,
\* or {} when the file is absent or its content is rejected by json.load.
get_movies(d) ==
    CASE d.kind = "json" -> JsonLoad(d.text)
      [] d.kind = "json_array" -> JsonArray
      [] OTHER -> EmptyDict

\* A save that writes the entries of the file that movies lacks after those
\* of movies, instead of replacing the content of the file.
save_movies_merge(m, d, mode) ==
    LET kept == SelectSeq(get_movies(d), LAMBDA e : \A i \in DOMAIN m : m[i][1] # e[1])
    IN  CASE mode = "ok" -> [disk |-> FileJson(JsonDump(m \o kept)), exc |-> NoExc]
          [] mode = "open_fails" -> [disk |-> d, exc |-> "OSError"]
          [] mode = "write_fails" -> [disk |-> FileCorrupt, exc |-> "OSError"]

\* save_movies(movies): the file afterwards and the exception raised.
save_movies(m, d, mode) ==
    CASE mode = "ok" -> [disk |-> FileJson(JsonDump(m)), exc |-> NoExc]
      [] mode = "open_fails" -> [disk |-> d, exc |-> "OSError"]
      [] mode = "write_fails" -> [disk |-> FileCorrupt, exc |-> "OSError"]

(***************************************************************************)
(* movie_manager.py: what a call hands back to its caller.                 *)
(***************************************************************************)
\* return success, message
Return(success, msg) == [kind |-> "return", success |-> success, msg |-> msg]

\* an exception leaves the method
Raise(exc) == [kind |-> "raise", exc |-> exc]

\* return value (of a query)
Value(v) == [kind |-> "value", value |-> v]

Outcome(m, d, ret, io) == [movies |-> m, disk |-> d, ret |-> ret, io |-> io]

\* The messages of the code, without the interpolated title.
MsgExists == "Movie already exists!"

MsgAdded == "Movie added successfully."

MsgParse == "Could not parse movie data from OMDb"

MsgNotFound == "Movie not found!"

MsgDeleted == "Movie deleted."

MsgDuplicate == "Invalid or duplicate title."

MsgRenamed == "Movie title updated."

MsgUpdated == "Field updated successfully."

\* SaveAndReturn with the save wrapped in a try / except that passes.
SaveAndReturnSwallow(m, d, mode, msg) ==
    Outcome(m, save_movies(m, d, mode).disk, Return(TRUE, msg), <<"save_movies">>)

\* The tail shared by the mutating methods: movie_storage.save_movies(self.movies)
\* and then return True, msg. An exception of save_movies leaves the method.
SaveAndReturn(m, d, mode, msg) ==
    LET s == save_movies(m, d, mode)
    IN  Outcome(m, s.disk,
                IF s.exc = NoExc THEN Return(TRUE, msg) ELSE Raise(s.exc),
                <<"save_movies">>)

\* MovieManager.__init__
init_movies(d) == get_movies(d)

\* A call of get_movies(): FileNotFoundError and json.JSONDecodeError are
\* caught, the UnicodeDecodeError of the read is not.
get_movies_call(d) ==
    IF d.kind = "undecodable" THEN Raise("UnicodeDecodeError") ELSE Value(get_movies(d))

\* add_movie_manually without the membership test: the title is overwritten.
add_movie_manually_overwrite(m, d, title, rating, year, mode) ==
    SaveAndReturn(SetItem(m, title, [rating |-> rating, year |-> year]), d, mode, MsgAdded)

\* add_movie_manually with the two numbers stored under each other's name.
add_movie_manually_swapped(m, d, title, rating, year, mode) ==
    IF Has(m, title)
    THEN Outcome(m, d, Return(FALSE, MsgExists), <<>>)
    ELSE SaveAndReturn(SetItem(m, title, [rating |-> year, year |-> rating]),
                       d, mode, MsgAdded)

\* MovieManager.add_movie_manually
add_movie_manually(m, d, title, rating, year, mode) ==
    IF Has(m, title)
    THEN Outcome(m, d, Return(FALSE, MsgExists), <<>>)
    ELSE SaveAndReturn(SetItem(m, title, [rating |-> rating, year |-> year]),
                       d, mode, MsgAdded)

\* The literal "N/A"
NA == <<"N", "/", "A">>

\* year = int(year_str) if year_str and year_str.isdigit() else 0
\* raises tells that int() raised ValueError.
omdb_year(year_str) ==
    IF Truthy(year_str) /\ IsDigit(year_str)
    THEN IF IntOk(year_str)
         THEN [raises |-> FALSE, value |-> IntValue(year_str)]
         ELSE [raises |-> TRUE, value |-> 0]
    ELSE [raises |-> FALSE, value |-> 0]

\* omdb_rating with a rating that does not parse taken as 0.0.
omdb_rating_default(rating_str) ==
    IF Truthy(rating_str) /\ rating_str # NA /\ FloatOk(rating_str)
    THEN [raises |-> FALSE, value |-> FloatValue(rating_str)]
    ELSE [raises |-> FALSE, value |-> 0]

\* rating = float(rating_str) if rating_str and rating_str != "N/A" else 0.0
\* raises tells that float() raised ValueError.
omdb_rating(rating_str) ==
    IF Truthy(rating_str) /\ rating_str # NA
    THEN IF FloatOk(rating_str)
         THEN [raises |-> FALSE, value |-> FloatValue(rating_str)]
         ELSE [raises |-> TRUE, value |-> 0]
    ELSE [raises |-> FALSE, value |-> 0]

\* The actors without the strip() of the pieces.
omdb_actors_nostrip(actors_str) == Split(actors_str)

\* actors = [actor.strip() for actor in actors_str.split(",")]
omdb_actors(actors_str) ==
    LET pieces == Split(actors_str)
    IN  [i \in DOMAIN pieces |-> Strip(pieces[i])]

\* MovieManager.add_movie_from_omdb
add_movie_from_omdb(m, d, title, movie_data, mode) ==
    IF Has(m, title)
    THEN Outcome(m, d, Return(FALSE, MsgExists), <<>>)
    ELSE
      LET year_str == PayloadGet(movie_data, "Year")
          rating_str == PayloadGet(movie_data, "imdbRating")
          description == PayloadGet(movie_data, "Plot")
          actors_str == PayloadGetDefault(movie_data, "Actors", EmptyStr)
          year == omdb_year(year_str)
          rating == omdb_rating(rating_str)
      IN  IF year.raises \/ rating.raises
          THEN \* ValueError, caught by the except clause
               Outcome(m, d, Return(FALSE, MsgParse), <<>>)
          ELSE IF actors_str = None
          THEN \* None has no split: AttributeError, which is not caught
               Outcome(m, d, Raise("AttributeError"), <<>>)
          ELSE
            LET m2 == SetItem(m, title,
                              [rating |-> rating.value, year |-> year.value,
                               description |-> description,
                               actors |-> omdb_actors(actors_str)])
                s == save_movies(m2, d, mode)
            IN  Outcome(m2, s.disk,
                        IF s.exc = NoExc THEN Return(TRUE, MsgAdded)
                        ELSE IF s.exc \in {"ValueError", "TypeError"}
                             THEN Return(FALSE, MsgParse)
                             ELSE Raise(s.exc),
                        <<"save_movies">>)

\* delete_movie without the save.
delete_movie_nosave(m, d, title, mode) ==
    IF ~Has(m, title)
    THEN Outcome(m, d, Return(FALSE, MsgNotFound), <<>>)
    ELSE Outcome(DelItem(m, title), d, Return(TRUE, MsgDeleted), <<>>)

\* delete_movie with the save before the del.
delete_movie_save_first(m, d, title, mode) ==
    IF ~Has(m, title)
    THEN Outcome(m, d, Return(FALSE, MsgNotFound), <<>>)
    ELSE LET out == SaveAndReturn(m, d, mode, MsgDeleted)
         IN  Outcome(DelItem(m, title), out.disk, out.ret, out.io)

\* MovieManager.delete_movie
delete_movie(m, d, title, mode) ==
    IF ~Has(m, title)
    THEN Outcome(m, d, Return(FALSE, MsgNotFound), <<>>)
    ELSE SaveAndReturn(DelItem(m, title), d, mode, MsgDeleted)

\* update_movie_title that lets a title be renamed to itself.
update_movie_title_self(m, d, old_title, new_title, mode) ==
    IF Has(m, new_title) /\ new_title # old_title
    THEN Outcome(m, d, Return(FALSE, MsgDuplicate), <<>>)
    ELSE IF ~Has(m, old_title)
    THEN Outcome(m, d, Raise("KeyError"), <<>>)
    ELSE SaveAndReturn(SetItem(DelItem(m, old_title), new_title, Get(m, old_title)),
                       d, mode, MsgRenamed)

\* update_movie_title with self.movies[old_title] in place of the pop.
update_movie_title_copy(m, d, old_title, new_title, mode) ==
    IF Has(m, new_title)
    THEN Outcome(m, d, Return(FALSE, MsgDuplicate), <<>>)
    ELSE IF ~Has(m, old_title)
    THEN Outcome(m, d, Raise("KeyError"), <<>>)
    ELSE SaveAndReturn(SetItem(m, new_title, Get(m, old_title)), d, mode, MsgRenamed)

\* update_movie_title that takes an absent old title as nothing to do: it
\* saves and returns the success.
update_movie_title_lenient(m, d, old_title, new_title, mode) ==
    IF Has(m, new_title)
    THEN Outcome(m, d, Return(FALSE, MsgDuplicate), <<>>)
    ELSE IF ~Has(m, old_title)
    THEN SaveAndReturn(m, d, mode, MsgRenamed)
    ELSE SaveAndReturn(SetItem(DelItem(m, old_title), new_title, Get(m, old_title)),
                       d, mode, MsgRenamed)

\* MovieManager.update_movie_title
update_movie_title(m, d, old_title, new_title, mode) ==
    IF Has(m, new_title)
    THEN Outcome(m, d, Return(FALSE, MsgDuplicate), <<>>)
    ELSE IF ~Has(m, old_title)
    THEN \* self.movies.pop(old_title) raises before anything is assigned
         Outcome(m, d, Raise("KeyError"), <<>>)
    ELSE SaveAndReturn(SetItem(DelItem(m, old_title), new_title, Get(m, old_title)),
                       d, mode, MsgRenamed)

\* record[field] = value on the inner dict
SetField(r, field, value) ==
    [f \in DOMAIN r \cup {field} |-> IF f = field THEN value ELSE r[f]]

\* MovieManager.update_movie_field
update_movie_field(m, d, title, field, value, mode) ==
    IF ~Has(m, title)
    THEN \* self.movies[title] raises KeyError: there is no existence check
         Outcome(m, d, Raise("KeyError"), <<>>)
    ELSE SaveAndReturn(SetItem(m, title, SetField(Get(m, title), field, value)),
                       d, mode, MsgUpdated)

(***************************************************************************)
(* movie_manager.py: the queries.                                          *)
(***************************************************************************)
\* return None (and return None, None of get_random_movie)
ReturnNone == [kind |-> "none"]

\* An optional numeric argument: None is <<>>, the number x is <<x>>.
Absent == <<>>

Some(x) == <<x>>

\* The code point of a character of a title.
Ord(c) ==
    CASE c = " " -> 32 [] c = "A" -> 65 [] c = "B" -> 66 [] c = "C" -> 67
      [] c = "a" -> 97 [] c = "b" -> 98 [] c = "c" -> 99
      [] OTHER -> 127

RECURSIVE StrLess(_, _)
\* s < t for two str: by code point, a proper prefix first.
StrLess(s, t) ==
    IF t = <<>> THEN FALSE
    ELSE IF s = <<>> THEN TRUE
    ELSE IF s[1] # t[1] THEN Ord(s[1]) < Ord(t[1])
    ELSE StrLess(Tail(s), Tail(t))

\* The place sorted() gives to element i of a list of str: after every
\* smaller one and after the equal ones that came before it.
StrRank(l, i) ==
    Cardinality({j \in DOMAIN l : StrLess(l[j], l[i]) \/ (l[j] = l[i] /\ j < i)}) + 1

\* sorted(l) for a list of str
SortedStrs(l) == [p \in DOMAIN l |-> l[CHOOSE i \in DOMAIN l : StrRank(l, i) = p]]

\* A descending sort made by reversing the ascending one: the equal keys
\* come out in reverse order.
KeyRankReversed(k, i, reverse) ==
    LET asc == Cardinality({j \in DOMAIN k : k[j] < k[i] \/ (k[j] = k[i] /\ j < i)}) + 1
    IN  IF reverse THEN Len(k) + 1 - asc ELSE asc

\* The place sorted(key=..., reverse=...) gives to element i of a list with
\* the integer keys k: the sort is stable in both directions.
KeyRank(k, i, reverse) ==
    Cardinality({j \in DOMAIN k :
                    \/ (IF reverse THEN k[j] > k[i] ELSE k[j] < k[i])
                    \/ (k[j] = k[i] /\ j < i)}) + 1

\* sorted(l) for a list of numbers
SortedInts(l) == [p \in DOMAIN l |-> l[CHOOSE i \in DOMAIN l : KeyRank(l, i, FALSE) = p]]

RECURSIVE SumSeq(_)
SumSeq(l) == IF l = <<>> THEN 0 ELSE l[1] + SumSeq(Tail(l))

\* max(l), min(l) of a non-empty list of numbers
MaxOf(l) == CHOOSE x \in {l[i] : i \in DOMAIN l} : \A i \in DOMAIN l : l[i] <= x

MinOf(l) == CHOOSE x \in {l[i] : i \in DOMAIN l} : \A i \in DOMAIN l : x <= l[i]

\* statistics.mean: the quotient num / den, kept as a fraction.
Mean(l) == [num |-> SumSeq(l), den |-> Len(l)]

\* statistics.median: the middle value, or the mean of the two middle ones.
Median(l) ==
    LET data == SortedInts(l)
        n == Len(l)
    IN  IF n % 2 = 1
        THEN [num |-> data[(n \div 2) + 1], den |-> 1]
        ELSE [num |-> data[n \div 2] + data[(n \div 2) + 1], den |-> 2]

\* [title for title, data in self.movies.items() if data["rating"] == r]
TitlesRated(m, r) ==
    LET hits == SelectSeq(m, LAMBDA e : e[2].rating = r)
    IN  [i \in DOMAIN hits |-> hits[i][1]]

\* MovieManager.get_all_movies
get_all_movies(m, d) == Outcome(m, d, Value(m), <<>>)

\* get_stats without the sorted() of the two lists of titles.
get_stats_unsorted(m, d) ==
    IF m = EmptyDict
    THEN Outcome(m, d, ReturnNone, <<>>)
    ELSE
      LET ratings == [i \in DOMAIN m |-> m[i][2].rating]
          max_rating == MaxOf(ratings)
          min_rating == MinOf(ratings)
      IN  Outcome(m, d,
                  Value([total_movies |-> Len(m),
                         avg_rating |-> Mean(ratings),
                         median_rating |-> Median(ratings),
                         best_movies |-> <<TitlesRated(m, max_rating), max_rating>>,
                         worst_movies |-> <<TitlesRated(m, min_rating), min_rating>>]),
                  <<>>)

\* MovieManager.get_stats
get_stats(m, d) ==
    IF m = EmptyDict
    THEN Outcome(m, d, ReturnNone, <<>>)
    ELSE
      LET ratings == [i \in DOMAIN m |-> m[i][2].rating]
          max_rating == MaxOf(ratings)
          min_rating == MinOf(ratings)
      IN  Outcome(m, d,
                  Value([total_movies |-> Len(m),
                         avg_rating |-> Mean(ratings),
                         median_rating |-> Median(ratings),
                         best_movies |-> <<SortedStrs(TitlesRated(m, max_rating)), max_rating>>,
                         worst_movies |-> <<SortedStrs(TitlesRated(m, min_rating)), min_rating>>]),
                  <<>>)

\* MovieManager.get_random_movie: random.choice picks the item at index pick.
get_random_movie(m, d, pick) ==
    IF m = EmptyDict
    THEN Outcome(m, d, ReturnNone, <<>>)
    ELSE Outcome(m, d, Value(m[pick]), <<>>)

\* The three prefixes of the search syntax.
PrefixA == <<"a", ":">>

PrefixY == <<"y", ":">>

PrefixR == <<"r", ":">>

\* The test of the actors without the lower() of the name.
AnyActorCaseSensitive(actors, term) == \E i \in DOMAIN actors : Contains(actors[i], term)

\* any(search_term in actor.lower() for actor in actors)
AnyActor(actors, term) == \E i \in DOMAIN actors : Contains(Lower(actors[i]), term)

\* search_movies with the ValueError of int() and float() taken as "no
\* match": an empty list where the code returns None.
search_movies_lenient(m, d, query) ==
    LET query_lower == Lower(query)
        term == Strip(Slice(query_lower, 3, Len(query_lower)))
    IN  IF StartsWith(query_lower, PrefixA)
        THEN Outcome(m, d,
                     Value(SelectSeq(m, LAMBDA e : "actors" \in DOMAIN e[2]
                                                      /\ AnyActor(e[2].actors, term))),
                     <<>>)
        ELSE IF StartsWith(query_lower, PrefixY)
        THEN IF ~IntOk(term)
             THEN Outcome(m, d, Value(<<>>), <<>>)
             ELSE Outcome(m, d,
                          Value(SelectSeq(m, LAMBDA e : e[2].year = IntValue(term))),
                          <<>>)
        ELSE IF StartsWith(query_lower, PrefixR)
        THEN IF ~FloatOk(term)
             THEN Outcome(m, d, Value(<<>>), <<>>)
             ELSE IF Lower(Unsigned(term)) \in FloatWords
             THEN \* inf and nan equal no stored rating
                  Outcome(m, d, Value(<<>>), <<>>)
             ELSE Outcome(m, d,
                          Value(SelectSeq(m, LAMBDA e : e[2].rating = FloatValue(term))),
                          <<>>)
        ELSE Outcome(m, d,
                     Value(SelectSeq(m, LAMBDA e : Contains(Lower(e[1]), query_lower))),
                     <<>>)

\* MovieManager.search_movies
search_movies(m, d, query) ==
    LET query_lower == Lower(query)
        term == Strip(Slice(query_lower, 3, Len(query_lower)))
    IN  IF StartsWith(query_lower, PrefixA)
        THEN Outcome(m, d,
                     Value(SelectSeq(m, LAMBDA e : "actors" \in DOMAIN e[2]
                                                      /\ AnyActor(e[2].actors, term))),
                     <<>>)
        ELSE IF StartsWith(query_lower, PrefixY)
        THEN IF ~IntOk(term)
             THEN Outcome(m, d, ReturnNone, <<>>)
             ELSE Outcome(m, d,
                          Value(SelectSeq(m, LAMBDA e : e[2].year = IntValue(term))),
                          <<>>)
        ELSE IF StartsWith(query_lower, PrefixR)
        THEN IF ~FloatOk(term)
             THEN Outcome(m, d, ReturnNone, <<>>)
             ELSE IF Lower(Unsigned(term)) \in FloatWords
             THEN \* inf and nan equal no stored rating
                  Outcome(m, d, Value(<<>>), <<>>)
             ELSE Outcome(m, d,
                          Value(SelectSeq(m, LAMBDA e : e[2].rating = FloatValue(term))),
                          <<>>)
        ELSE Outcome(m, d,
                     Value(SelectSeq(m, LAMBDA e : Contains(Lower(e[1]), query_lower))),
                     <<>>)

\* The lower bound taken as exclusive.
AtLeastStrict(v, bound) == bound = Absent \/ v > bound[1]

\* x is None or lhs >= x, for an optional bound x
AtLeast(v, bound) == bound = Absent \/ v >= bound[1]

AtMost(v, bound) == bound = Absent \/ v <= bound[1]

\* filter_movies that keeps the filtered dict as self.movies.
filter_movies_assign(m, d, min_rating, start_year, end_year) ==
    LET filtered == SelectSeq(m, LAMBDA e : /\ AtLeast(e[2].rating, min_rating)
                                            /\ AtLeast(e[2].year, start_year)
                                            /\ AtMost(e[2].year, end_year))
    IN  Outcome(filtered, d, Value(filtered), <<>>)

\* MovieManager.filter_movies
filter_movies(m, d, min_rating, start_year, end_year) ==
    Outcome(m, d,
            Value(SelectSeq(m, LAMBDA e : /\ AtLeast(e[2].rating, min_rating)
                                          /\ AtLeast(e[2].year, start_year)
                                          /\ AtMost(e[2].year, end_year))),
            <<>>)

\* MovieManager.sort_movies
sort_movies(m, d, by, order_desc) ==
    LET k == [i \in DOMAIN m |-> m[i][2][by]]
    IN  Outcome(m, d,
                Value([p \in DOMAIN m |-> m[CHOOSE i \in DOMAIN m : KeyRank(k, i, order_desc) = p]]),
                <<>>)

(***************************************************************************)
(* movie_manager.py: the search at the OMDb API. The requests library of   *)
(* the build, the config file of the API key and the reply of the provider *)
(* are the environment of the call.                                        *)
(***************************************************************************)
\* The requests library of the build: not installed; a release in which
\* response.json() raises a plain ValueError for a body that is no JSON
\* (before 2.27); a release in which it raises a RequestException.
RequestsBuilds == {"missing", "before_2_27", "since_2_27"}

\* The config file: absent, rejected by json.load, valid JSON that is no
\* object, or the object config.
ConfigAbsent == [kind |-> "absent"]

ConfigCorrupt == [kind |-> "corrupt"]

ConfigJsonArray == [kind |-> "json_array"]

ConfigObject(config) == [kind |-> "object", config |-> config]

\* movie_storage.get_api_key: config.get("api_key"), None when the file is
\* absent or rejected by json.load; a list has no get.
get_api_key(c) ==
    CASE c.kind = "object" ->
            Value(IF "api_key" \in DOMAIN c.config THEN c.config.api_key ELSE None)
      [] c.kind = "json_array" -> Raise("AttributeError")
      [] OTHER -> Value(None)

\* What requests.get(url) and the reading of the response meet: an
\* exception of the transport, a bad status code, a body that is no JSON, the
\* JSON body null, or the JSON object data.
ReplyConnectionError == [kind |-> "exception"]

ReplyBadStatus == [kind |-> "status"]

ReplyNotJson == [kind |-> "text"]

ReplyJsonNull == [kind |-> "json_null"]

ReplyObject(data) == [kind |-> "object", data |-> data]

\* return data, None and return None, text
Pair(data, error) == [kind |-> "pair", data |-> data, error |-> error]

MsgNoRequests == "The 'requests' library is not installed."

MsgNoKey == "OMDb API key is not set."

\* The message of a RequestException, without the interpolated exception.
MsgOnline == "An error occurred while searching online"

MsgMovieNotFound == "Movie not found."

\* MovieManager.search_movie_online
search_movie_online(m, d, build, config, reply) ==
    IF build = "missing"
    THEN Outcome(m, d, Pair(Absent, Some(MsgNoRequests)), <<>>)
    ELSE
      LET api_key == get_api_key(config)
      IN  IF api_key.kind = "raise"
          THEN Outcome(m, d, api_key, <<"get_api_key">>)
          ELSE IF ~Truthy(api_key.value)
          THEN Outcome(m, d, Pair(Absent, Some(MsgNoKey)), <<"get_api_key">>)
          ELSE
            Outcome(m, d,
                    CASE reply.kind \in {"exception", "status"} ->
                            Pair(Absent, Some(MsgOnline))
                      [] reply.kind = "text" ->
                            IF build = "since_2_27"
                            THEN Pair(Absent, Some(MsgOnline))
                            ELSE Raise("JSONDecodeError")
                      [] reply.kind = "json_null" ->
                            \* None has no get
                            Raise("AttributeError")
                      [] reply.kind = "object" ->
                            IF "Response" \in DOMAIN reply.data /\ reply.data.Response = "True"
                            THEN Pair(Some(reply.data), Absent)
                            ELSE Pair(Absent,
                                      Some(IF "Error" \in DOMAIN reply.data
                                           THEN reply.data.Error
                                           ELSE MsgMovieNotFound)),
                    <<"get_api_key", "requests.get">>)

(***************************************************************************)
(* The inputs the operations are explored with.                            *)
(***************************************************************************)
TitleAb == <<"A", "b">>

TitleA == <<"a">>

TitleB == <<"B">>

Titles == {TitleAb, TitleA, TitleB}

\* <<rating, year>> of a manual add: 7.0 and 8.5, both in 2010.
ManualInputs == {<<70, 2010>>, <<85, 2010>>}

Plot == <<"p">>

\* {"Year": "2010", "imdbRating": "N/A", "Plot": "p", "Actors": "A, B,A "}
PayloadNA ==
    [Year |-> <<"2", "0", "1", "0">>, imdbRating |-> NA, Plot |-> Plot,
     Actors |-> <<"A", ",", " ", "B", ",", "A", " ">>]

\* {"Year": "2010", "imdbRating": "8.5", "Plot": "p", "Actors": "A, B,A "}
PayloadRated ==
    [Year |-> <<"2", "0", "1", "0">>, imdbRating |-> <<"8", ".", "5">>, Plot |-> Plot,
     Actors |-> <<"A", ",", " ", "B", ",", "A", " ">>]

\* {"Year": "abcd"}
PayloadYearOnly == [Year |-> <<"a", "b", "c", "d">>]

\* {"Year": "abcd", "imdbRating": "", "Actors": ""}
PayloadEmptyRating ==
    [Year |-> <<"a", "b", "c", "d">>, imdbRating |-> EmptyStr, Actors |-> EmptyStr]

\* {"imdbRating": "bad"}
PayloadBadRating == [imdbRating |-> <<"b", "a", "d">>]

\* {"imdbRating": " n/a"}
PayloadLowerNA == [imdbRating |-> <<" ", "n", "/", "a">>]

\* {"Year": "²", "imdbRating": "8.5"}: a digit character that is no decimal
\* digit.
PayloadSuperscriptYear == [Year |-> <<"^2">>, imdbRating |-> <<"8", ".", "5">>]

Payloads ==
    {PayloadNA, PayloadRated, PayloadYearOnly, PayloadEmptyRating,
     PayloadBadRating, PayloadLowerNA, PayloadSuperscriptYear}

\* <<field, value>> of a field update.
UpdateInputs == {<<"rating", 85>>}

SearchQueries ==
    { <<"A", ":", "b">>, <<"a", ":">>,
      <<"y", ":", "2", "0", "1", "0">>, <<"Y", ":", "1", "x">>,
      <<"r", ":", " ", "8", ".", "5">>, <<"r", ":">>,
      <<"B">> }

\* <<min_rating, start_year, end_year>>
FilterInputs ==
    { <<Absent, Absent, Absent>>,
      <<Some(70), Some(2010), Some(2010)>>,
      <<Some(85), Absent, Some(2009)>> }

SortFields == {"rating", "year"}

\* The files the program can be started over.
InitialFiles ==
    { FileAbsent, FileCorrupt, FileJson(JsonDump(EmptyDict)),
      FileJson(JsonDump(<< <<TitleB, [rating |-> 70, year |-> 2010]>> >>)) }

(***************************************************************************)
(* The state machine: one MovieManager over one file. last records the     *)
(* operation that ran last: its name and arguments, self.movies and the    *)
(* file as they were before it, what it handed back, the storage calls it  *)
(* made and how the save went. faulted tells that a save has failed.       *)
(* other is self.movies of a second MovieManager over the same file: {}    *)
(* as long as none is constructed.                                         *)
(***************************************************************************)
Init ==
    /\ disk \in InitialFiles
    /\ movies = init_movies(disk)
    /\ faulted = FALSE
    /\ other = EmptyDict
    /\ last = [op |-> "__init__", args |-> <<>>,
               pre |-> [movies |-> EmptyDict, disk |-> disk],
               ret |-> ReturnNone, io |-> <<"get_movies">>, mode |-> "none"]

Apply(op, args, out, mode) ==
    /\ movies' = out.movies
    /\ disk' = out.disk
    /\ UNCHANGED other
    /\ faulted' = (faulted \/ (out.io # <<>> /\ mode # "ok"))
    /\ last' = [op |-> op, args |-> args,
                pre |-> [movies |-> movies, disk |-> disk],
                ret |-> out.ret, io |-> out.io,
                mode |-> IF out.io = <<>> THEN "none" ELSE mode]

\* The collection has room for one more entry, or the title is in it.
Room(title) == Len(movies) < MaxMovies \/ Has(movies, title)

\* The ways the save of a call can go: the outcome out is the call's with a
\* save that works; a call that saves nothing has one way to go, and a run
\* is explored with one failed save at most.
ModesOf(out, modes) == IF modes = {"ok"} \/ faulted \/ out.io = <<>> THEN {"ok"} ELSE modes

AddManual(modes) ==
    \E title \in Titles, in \in ManualInputs :
        \E mode \in ModesOf(add_movie_manually(movies, disk, title, in[1], in[2], "ok"), modes) :
            /\ Room(title)
            /\ Apply("add_movie_manually", <<title, in[1], in[2]>>,
                     add_movie_manually(movies, disk, title, in[1], in[2], mode), mode)

AddFromOmdb(payloads, modes) ==
    \E title \in Titles, movie_data \in payloads :
        \E mode \in ModesOf(add_movie_from_omdb(movies, disk, title, movie_data, "ok"), modes) :
            /\ Room(title)
            /\ Apply("add_movie_from_omdb", <<title, movie_data>>,
                     add_movie_from_omdb(movies, disk, title, movie_data, mode), mode)

Delete(modes) ==
    \E title \in Titles :
        \E mode \in ModesOf(delete_movie(movies, disk, title, "ok"), modes) :
            Apply("delete_movie", <<title>>, delete_movie(movies, disk, title, mode), mode)

UpdateTitle(modes) ==
    \E old_title \in Titles, new_title \in Titles :
        \E mode \in ModesOf(update_movie_title(movies, disk, old_title, new_title, "ok"), modes) :
            Apply("update_movie_title", <<old_title, new_title>>,
                  update_movie_title(movies, disk, old_title, new_title, mode), mode)

UpdateField(modes) ==
    \E title \in Titles, in \in UpdateInputs :
        \E mode \in ModesOf(update_movie_field(movies, disk, title, in[1], in[2], "ok"), modes) :
            Apply("update_movie_field", <<title, in[1], in[2]>>,
                  update_movie_field(movies, disk, title, in[1], in[2], mode), mode)

GetAll == Apply("get_all_movies", <<>>, get_all_movies(movies, disk), "none")

GetStats == Apply("get_stats", <<>>, get_stats(movies, disk), "none")

GetRandom ==
    \E pick \in 1..(IF movies = EmptyDict THEN 1 ELSE Len(movies)) :
        Apply("get_random_movie", <<>>, get_random_movie(movies, disk, pick), "none")

Search ==
    \E query \in SearchQueries :
        Apply("search_movies", <<query>>, search_movies(movies, disk, query), "none")

Filter ==
    \E in \in FilterInputs :
        Apply("filter_movies", in, filter_movies(movies, disk, in[1], in[2], in[3]), "none")

Sort ==
    \E by \in SortFields, order_desc \in BOOLEAN :
        Apply("sort_movies", <<by, order_desc>>,
              sort_movies(movies, disk, by, order_desc), "none")

\* Every operation of the MovieManager, over a file every save of which
\* succeeds.
Next ==
    \/ AddManual({"ok"})
    \/ AddFromOmdb(Payloads, {"ok"})
    \/ Delete({"ok"})
    \/ UpdateTitle({"ok"})
    \/ UpdateField({"ok"})
    \/ GetAll
    \/ GetStats
    \/ GetRandom
    \/ Search
    \/ Filter
    \/ Sort

Spec == Init /\ [][Next]_vars

\* The payloads of the runs with a failing save: one that parses and one
\* that does not.
FaultPayloads == {PayloadRated, PayloadBadRating}

\* The mutating operations over a file whose save can fail.
NextFault ==
    \/ AddManual(SaveModes)
    \/ AddFromOmdb(FaultPayloads, SaveModes)
    \/ Delete(SaveModes)
    \/ UpdateTitle(SaveModes)
    \/ UpdateField(SaveModes)

SpecFault == Init /\ [][NextFault]_vars

\* An operation recorded together with the one that ran before it: prev is
\* that operation, its arguments, what it handed back and self.movies as it
\* was before it.
ApplyAfter(op, args, out) ==
    /\ movies' = out.movies
    /\ disk' = out.disk
    /\ UNCHANGED <<faulted, other>>
    /\ last' = [op |-> op, args |-> args,
                pre |-> [movies |-> movies, disk |-> disk],
                ret |-> out.ret, io |-> out.io,
                mode |-> IF out.io = <<>> THEN "none" ELSE "ok",
                prev |-> [op |-> last.op, args |-> last.args, ret |-> last.ret,
                          pre |-> last.pre.movies]]

AddManualAfter ==
    \E title \in Titles, in \in ManualInputs :
        /\ Room(title)
        /\ ApplyAfter("add_movie_manually", <<title, in[1], in[2]>>,
                      add_movie_manually(movies, disk, title, in[1], in[2], "ok"))

DeleteAfter ==
    \E title \in Titles :
        ApplyAfter("delete_movie", <<title>>, delete_movie(movies, disk, title, "ok"))

UpdateTitleAfter ==
    \E old_title \in Titles, new_title \in Titles :
        ApplyAfter("update_movie_title", <<old_title, new_title>>,
                   update_movie_title(movies, disk, old_title, new_title, "ok"))

\* The manual add, the delete and the rename, each recorded with the
\* operation before it, over a file every save of which succeeds.
NextAfter == AddManualAfter \/ DeleteAfter \/ UpdateTitleAfter

SpecAfter == Init /\ [][NextAfter]_vars

(***************************************************************************)
(* Two MovieManager objects over the same file: movies is self.movies of   *)
(* the one, "a", and other is self.movies of the second, "b". Each method  *)
(* runs to its end before the next one starts. last.writer is the object   *)
(* whose mutation succeeded last.                                          *)
(***************************************************************************)
Instances == {"a", "b"}

\* self.movies of the object who
MoviesOf(who) == IF who = "a" THEN movies ELSE other

\* <<rating, year>> of the manual adds of "a" and of "b"
InputOf(who) == IF who = "a" THEN <<70, 2010>> ELSE <<85, 2010>>

InitTwo ==
    /\ disk \in InitialFiles
    /\ movies = init_movies(disk)
    /\ other = init_movies(disk)
    /\ faulted = FALSE
    /\ last = [op |-> "__init__", args |-> <<>>, who |-> "none",
               pre |-> [movies |-> EmptyDict, disk |-> disk],
               ret |-> ReturnNone, io |-> <<"get_movies">>, mode |-> "none",
               writer |-> "none"]

ApplyTwo(who, op, args, out) ==
    /\ IF who = "a"
       THEN movies' = out.movies /\ UNCHANGED other
       ELSE other' = out.movies /\ UNCHANGED movies
    /\ disk' = out.disk
    /\ UNCHANGED faulted
    /\ last' = [op |-> op, args |-> args, who |-> who,
                pre |-> [movies |-> MoviesOf(who), disk |-> disk],
                ret |-> out.ret, io |-> out.io,
                mode |-> IF out.io = <<>> THEN "none" ELSE "ok",
                writer |-> IF out.ret.kind = "return" /\ out.ret.success
                           THEN who ELSE last.writer]

AddManualTwo ==
    \E who \in Instances, title \in Titles :
        /\ Len(MoviesOf(who)) < MaxMovies \/ Has(MoviesOf(who), title)
        /\ ApplyTwo(who, "add_movie_manually", <<title, InputOf(who)[1], InputOf(who)[2]>>,
                    add_movie_manually(MoviesOf(who), disk, title,
                                       InputOf(who)[1], InputOf(who)[2], "ok"))

DeleteTwo ==
    \E who \in Instances, title \in Titles :
        ApplyTwo(who, "delete_movie", <<title>>,
                 delete_movie(MoviesOf(who), disk, title, "ok"))

NextTwo == AddManualTwo \/ DeleteTwo

SpecTwo == InitTwo /\ [][NextTwo]_vars

\* The config files and the replies the online search is explored with.
Configs ==
    { ConfigAbsent, ConfigCorrupt, ConfigJsonArray,
      ConfigObject([other |-> EmptyStr]),
      ConfigObject([api_key |-> EmptyStr]),
      ConfigObject([api_key |-> <<"k">>]) }

\* {"Response": "True", "Year": "2010", "imdbRating": "8.5", "Plot": "p",
\*  "Actors": "A, B,A "}
OnlineData ==
    [Response |-> "True", Year |-> PayloadRated.Year, imdbRating |-> PayloadRated.imdbRating,
     Plot |-> PayloadRated.Plot, Actors |-> PayloadRated.Actors]

Replies ==
    { ReplyConnectionError, ReplyBadStatus, ReplyNotJson, ReplyJsonNull,
      ReplyObject(OnlineData),
      ReplyObject([Response |-> "False", Error |-> "Incorrect IMDb ID."]),
      ReplyObject([Response |-> "False"]),
      ReplyObject([Error |-> "Invalid API key!"]) }

SearchOnline ==
    \E build \in RequestsBuilds, config \in Configs, reply \in Replies :
        Apply("search_movie_online", <<TitleA, build, config, reply>>,
              search_movie_online(movies, disk, build, config, reply), "ok")

\* The online search and the add of what it found.
NextOnline ==
    \/ SearchOnline
    \/ AddFromOmdb({OnlineData}, {"ok"})

SpecOnline == Init /\ [][NextOnline]_vars

(***************************************************************************)
(* movie_storage.py on its own: save_movies of any collection and           *)
(* get_movies, as MovieManager.__init__ calls it, over any file. movies is  *)
(* the collection the caller holds: the one it saved or loaded last.        *)
(***************************************************************************)
\* The records the MovieManager makes: of a manual add, of an external add
\* with nothing usable in the payload, of an external add with everything.
StoreRecords ==
    { [rating |-> 70, year |-> 2010],
      [rating |-> 0, year |-> 0, description |-> None, actors |-> <<EmptyStr>>],
      [rating |-> 85, year |-> 2010, description |-> Plot, actors |-> << <<"A">>, <<"B">>, <<"A">> >>] }

\* Every dict of at most MaxMovies entries over the titles and the records.
StoreCollections ==
    UNION { {c \in [1..n -> Titles \X StoreRecords] :
                \A i, j \in 1..n : c[i][1] = c[j][1] => i = j} : n \in 0..MaxMovies }

\* The files get_movies can find.
StoreFiles ==
    {FileAbsent, FileCorrupt, FileJsonArray, FileUndecodable, FileJson(JsonDump(EmptyDict))}

InitStore ==
    /\ disk \in StoreFiles
    /\ movies = EmptyDict
    /\ faulted = FALSE
    /\ other = EmptyDict
    /\ last = [op |-> "none", args |-> <<>>, ret |-> ReturnNone, io |-> <<>>, mode |-> "none"]

\* save_movies(c): the write completes or fails after open() truncated.
StoreSave ==
    \E c \in StoreCollections, mode \in {"ok", "write_fails"} :
        LET saved == save_movies(c, disk, mode)
        IN  /\ movies' = c
            /\ disk' = saved.disk
            /\ last' = [op |-> "save_movies", args |-> <<c>>,
                        ret |-> IF saved.exc = NoExc THEN ReturnNone ELSE Raise(saved.exc),
                        io |-> <<"save_movies">>, mode |-> mode]
            /\ UNCHANGED <<faulted, other>>

\* self.movies = movie_storage.get_movies(); prev is the call made before.
StoreLoad ==
    LET loaded == get_movies_call(disk)
    IN  /\ movies' = IF loaded.kind = "value" THEN loaded.value ELSE movies
        /\ last' = [op |-> "get_movies", args |-> <<>>, ret |-> loaded,
                    io |-> <<"get_movies">>, mode |-> "none",
                    prev |-> [op |-> last.op, args |-> last.args, mode |-> last.mode]]
        /\ UNCHANGED <<disk, faulted, other>>

NextStore == StoreSave \/ StoreLoad

SpecStore == InitStore /\ [][NextStore]_vars

(***************************************************************************)
(* The properties.                                                         *)
(***************************************************************************)
\* The state before the operation that ran last.
Pre == last.pre.movies

\* The operation that ran last left self.movies and the file as they were
\* and called nothing of the storage.
Untouched == movies = Pre /\ disk = last.pre.disk /\ last.io = <<>>

\* Loading the file gives self.movies.
Persisted == get_movies(disk) = movies

MutatingOps ==
    {"add_movie_manually", "add_movie_from_omdb", "delete_movie",
     "update_movie_title", "update_movie_field"}

QueryOps ==
    {"get_all_movies", "get_stats", "get_random_movie", "search_movies",
     "filter_movies", "sort_movies"}

\* C1: an add of a title that is already in the collection, manual or from
\* an external payload, returns the failure "already exists" and leaves
\* self.movies and the file as they were: the record under the title is not
\* overwritten.
C1_DuplicateAddRejected ==
    (last.op \in {"add_movie_manually", "add_movie_from_omdb"} /\ Has(Pre, last.args[1]))
        => /\ last.ret = Return(FALSE, MsgExists)
           /\ Untouched
           /\ Get(movies, last.args[1]) = Get(Pre, last.args[1])

\* An external add of a payload that parses, for a title that is present
\* in a collection of two, was refused.
C1_Witness ==
    /\ last.op = "add_movie_from_omdb"
    /\ last.args[2] = PayloadRated
    /\ Has(Pre, last.args[1])
    /\ Len(Pre) = 2
    /\ last.ret = Return(FALSE, MsgExists)

\* C2: over a file every save of which succeeds, after the construction
\* and after every operation, loading the file gives exactly self.movies,
\* and a mutating operation that returned success has saved.
C2_PersistedIsMemory ==
    /\ Persisted
    /\ (last.op \in MutatingOps /\ last.ret.kind = "return" /\ last.ret.success)
           => last.io = <<"save_movies">>

\* A field update succeeded on a collection of two entries and changed it.
C2_Witness ==
    /\ last.op = "update_movie_field"
    /\ last.ret = Return(TRUE, MsgUpdated)
    /\ Len(movies) = 2
    /\ movies # Pre

\* C3: a query (get_all_movies, get_stats, get_random_movie, search_movies,
\* filter_movies, sort_movies) calls nothing of the storage and leaves
\* self.movies and the file as they were, a malformed search included.
C3_QueriesTouchNothing == last.op \in QueryOps => Untouched

\* A malformed search ran over a collection of two entries.
C3_Witness ==
    /\ last.op = "search_movies"
    /\ last.ret = ReturnNone
    /\ Len(movies) = 2

\* C4: a field update of a title that is not in the collection returns a
\* not-found failure to the caller, and self.movies and the file stay as
\* they were.
C4_UpdateAbsentReturnsNotFound ==
    (last.op = "update_movie_field" /\ ~Has(Pre, last.args[1]))
        => last.ret = Return(FALSE, MsgNotFound) /\ Untouched

\* The rating field of the payload of the last operation is present.
HasRating == "imdbRating" \in DOMAIN last.args[2]

\* A failed parse: the failure is returned, no entry for the title, nothing
\* touched.
ParseRefused ==
    /\ last.ret = Return(FALSE, MsgParse)
    /\ ~Has(movies, last.args[1])
    /\ Untouched

\* C5, as claimed: an external add for an absent title whose payload has a
\* rating that is present, is not "N/A" and is no number (the empty string
\* included) fails as a parse failure and changes nothing.
C5_Original ==
    (/\ last.op = "add_movie_from_omdb"
     /\ ~Has(Pre, last.args[1])
     /\ HasRating
     /\ last.args[2].imdbRating # NA
     /\ ~FloatOk(last.args[2].imdbRating))
        => ParseRefused

\* C5, amended: an external add for an absent title whose payload has a
\* rating that is a non-empty string, is not "N/A" and is rejected by
\* float() fails as a parse failure, adds no entry and changes nothing.
C5_BadRatingRefused ==
    (/\ last.op = "add_movie_from_omdb"
     /\ ~Has(Pre, last.args[1])
     /\ HasRating
     /\ last.args[2].imdbRating # EmptyStr
     /\ last.args[2].imdbRating # NA
     /\ ~FloatOk(last.args[2].imdbRating))
        => ParseRefused

\* An external add with the rating " n/a" ran for an absent title over a
\* collection that is not empty.
C5_Witness ==
    /\ last.op = "add_movie_from_omdb"
    /\ last.args[2] = PayloadLowerNA
    /\ ~Has(Pre, last.args[1])
    /\ Pre # EmptyDict
    /\ last.ret = Return(FALSE, MsgParse)

\* C6: delete_movie of an absent title returns the failure "not found" and
\* changes nothing; of a present title it returns success, the collection
\* is the one before without that title, every other title with its record
\* as it was, and that collection is what the file holds.
C6_Delete ==
    last.op = "delete_movie" =>
        IF ~Has(Pre, last.args[1])
        THEN last.ret = Return(FALSE, MsgNotFound) /\ Untouched
        ELSE /\ last.ret = Return(TRUE, MsgDeleted)
             /\ Keys(movies) = Keys(Pre) \ {last.args[1]}
             /\ Len(movies) = Len(Pre) - 1
             /\ \A k \in Keys(movies) : Get(movies, k) = Get(Pre, k)
             /\ Persisted

\* A title was deleted from a collection of two entries.
C6_Witness ==
    /\ last.op = "delete_movie"
    /\ Has(Pre, last.args[1])
    /\ Len(Pre) = 2
    /\ last.ret = Return(TRUE, MsgDeleted)

\* C7: update_movie_title to a title that is already a key, the old title
\* itself included, returns the failure "duplicate" and leaves self.movies
\* and the file as they were.
C7_RenameOntoExistingRefused ==
    (last.op = "update_movie_title" /\ Has(Pre, last.args[2]))
        => last.ret = Return(FALSE, MsgDuplicate) /\ Untouched

\* A present title was renamed to itself, and refused.
C7_Witness ==
    /\ last.op = "update_movie_title"
    /\ last.args[1] = last.args[2]
    /\ Has(Pre, last.args[1])
    /\ last.ret = Return(FALSE, MsgDuplicate)

\* C8: update_movie_title of a present title to an absent one returns
\* success; the old title is gone, the new title has the record the old one
\* had, field for field and with the same fields present, every other entry
\* is as it was, the number of entries is the same, and the file holds the
\* result.
C8_Rename ==
    (last.op = "update_movie_title" /\ Has(Pre, last.args[1]) /\ ~Has(Pre, last.args[2]))
        => /\ last.ret = Return(TRUE, MsgRenamed)
           /\ ~Has(movies, last.args[1])
           /\ Has(movies, last.args[2])
           /\ Get(movies, last.args[2]) = Get(Pre, last.args[1])
           /\ DOMAIN Get(movies, last.args[2]) = DOMAIN Get(Pre, last.args[1])
           /\ Keys(movies) = (Keys(Pre) \ {last.args[1]}) \cup {last.args[2]}
           /\ \A k \in Keys(Pre) \ {last.args[1]} : Get(movies, k) = Get(Pre, k)
           /\ Len(movies) = Len(Pre)
           /\ Persisted

\* A record with a description and actors was renamed in a collection of
\* two entries.
C8_Witness ==
    /\ last.op = "update_movie_title"
    /\ last.ret = Return(TRUE, MsgRenamed)
    /\ Len(Pre) = 2
    /\ "actors" \in DOMAIN Get(movies, last.args[2])

\* C9: add_movie_manually of an absent title returns success and inserts
\* under the title a record with the fields rating and year, set to the
\* given values, and no other field; every entry there was is as it was and
\* there is one entry more.
C9_AddManual ==
    (last.op = "add_movie_manually" /\ ~Has(Pre, last.args[1]))
        => /\ last.ret = Return(TRUE, MsgAdded)
           /\ Has(movies, last.args[1])
           /\ DOMAIN Get(movies, last.args[1]) = {"rating", "year"}
           /\ Get(movies, last.args[1]).rating = last.args[2]
           /\ Get(movies, last.args[1]).year = last.args[3]
           /\ \A k \in Keys(Pre) : Has(movies, k) /\ Get(movies, k) = Get(Pre, k)
           /\ Len(movies) = Len(Pre) + 1
           /\ Persisted

\* A title was added by hand to a collection that held another one.
C9_Witness ==
    /\ last.op = "add_movie_manually"
    /\ ~Has(Pre, last.args[1])
    /\ Len(Pre) = 1
    /\ last.ret = Return(TRUE, MsgAdded)

\* The operation that ran last returned success.
Succeeded == last.ret.kind = "return" /\ last.ret.success

\* C10: when the save of a mutating operation fails, the caller does not
\* get a success: the operation raises or returns a failure; and a mutating
\* operation that returned success has its collection in the file.
C10_SaveFailureSurfaced ==
    last.op \in MutatingOps =>
        /\ last.mode \in {"open_fails", "write_fails"} => ~Succeeded
        /\ Succeeded => Persisted

\* The write of an external add failed after the file was opened.
C10_Witness ==
    /\ last.op = "add_movie_from_omdb"
    /\ last.mode = "write_fails"
    /\ last.ret = Raise("OSError")
    /\ movies # Pre

\* C11: save_movies writes nothing partial: after an operation that called
\* it, whether the call completed or failed part-way, loading the file gives
\* the collection the file held before the call or the collection handed to
\* the call, and nothing else.
C11_NoPartialWrites ==
    last.io = <<"save_movies">>
        => \/ get_movies(disk) = get_movies(last.pre.disk)
           \/ get_movies(disk) = movies

\* C12: get_movies never raises and returns {} whenever the file holds no
\* valid collection: when it is absent, when its content cannot be parsed,
\* and when its content parses but is no mapping of titles to records; so
\* the MovieManager constructed over such a file has an empty self.movies.
C12_LoadDegradesToEmpty ==
    (last.op = "get_movies" /\ disk.kind # "json")
        => last.ret = Value(EmptyDict) /\ movies = EmptyDict

\* C13: round trip: get_movies() right after a save_movies(c) that completed
\* returns a dict with exactly the titles of c, one entry each, and for each
\* title the same fields present with the same values: rating and year, and
\* description and actors where c has them and only there.
C13_RoundTrip ==
    (last.op = "get_movies" /\ last.prev.op = "save_movies" /\ last.prev.mode = "ok")
        => LET c == last.prev.args[1]
           IN  /\ last.ret.kind = "value"
               /\ Keys(last.ret.value) = Keys(c)
               /\ Len(last.ret.value) = Len(c)
               /\ \A t \in Keys(c) :
                    LET r == Get(last.ret.value, t)
                        q == Get(c, t)
                    IN  /\ DOMAIN r = DOMAIN q
                        /\ r.rating = q.rating
                        /\ r.year = q.year
                        /\ \A f \in {"description", "actors"} \cap DOMAIN q : r[f] = q[f]

\* A collection of two entries was saved and loaded: one record without
\* description and actors, one with the description None.
C13_Witness ==
    /\ last.op = "get_movies"
    /\ last.prev.op = "save_movies"
    /\ last.prev.mode = "ok"
    /\ Len(last.prev.args[1]) = 2
    /\ \E i, j \in 1..2 :
            /\ "description" \notin DOMAIN last.prev.args[1][i][2]
            /\ "description" \in DOMAIN last.prev.args[1][j][2]
            /\ last.prev.args[1][j][2].description = None

\* The ratings of self.movies.
Ratings == {movies[i][2].rating : i \in DOMAIN movies}

\* The titles of the list l are in strictly ascending order.
Ascending(l) == \A i, j \in DOMAIN l : i < j => StrLess(l[i], l[j])

\* The pair <<titles, extremum>> lists, in ascending order, exactly the
\* titles of self.movies whose rating is the extremum x.
ListsTitlesRated(pair, x) ==
    /\ pair[2] = x
    /\ pair[1] # <<>>
    /\ Ascending(pair[1])
    /\ {pair[1][i] : i \in DOMAIN pair[1]} = {t \in Keys(movies) : Get(movies, t).rating = x}

\* C14: get_stats returns None exactly when the collection is empty; for a
\* collection that is not, total_movies is the number of entries, and
\* best_movies and worst_movies each hold the maximum (minimum) rating of
\* the collection and a non-empty list, in ascending order, of exactly the
\* titles whose rating equals it.
C14_Stats ==
    last.op = "get_stats" =>
        /\ (last.ret = ReturnNone) <=> (movies = EmptyDict)
        /\ movies # EmptyDict =>
             /\ last.ret.kind = "value"
             /\ last.ret.value.total_movies = Len(movies)
             /\ \E x \in Ratings :
                    /\ \A y \in Ratings : y <= x
                    /\ ListsTitlesRated(last.ret.value.best_movies, x)
             /\ \E x \in Ratings :
                    /\ \A y \in Ratings : x <= y
                    /\ ListsTitlesRated(last.ret.value.worst_movies, x)

\* The statistics of "B" and "Ab", stored in that order with the same
\* rating, were computed.
C14_Witness ==
    /\ last.op = "get_stats"
    /\ Len(movies) = 2
    /\ movies[1][1] = TitleB
    /\ movies[2][1] = TitleAb
    /\ Len(last.ret.value.best_movies[1]) = 2

\* The record r is within the bounds <<min_rating, start_year, end_year>>,
\* each of them inclusive and an absent one no constraint.
WithinBounds(r, in) ==
    /\ in[1] # Absent => r.rating >= in[1][1]
    /\ in[2] # Absent => r.year >= in[2][1]
    /\ in[3] # Absent => r.year <= in[3][1]

\* C15: filter_movies returns exactly the entries of self.movies whose
\* rating is >= min_rating and whose year is >= start_year and <= end_year,
\* each with its record as it is in self.movies; a bound that is None is no
\* constraint, so with the three of them None every entry is returned.
C15_Filter ==
    last.op = "filter_movies" =>
        /\ last.ret.kind = "value"
        /\ Keys(last.ret.value) = {t \in Keys(movies) : WithinBounds(Get(movies, t), last.args)}
        /\ Len(last.ret.value) = Cardinality(Keys(last.ret.value))
        /\ \A t \in Keys(last.ret.value) : Get(last.ret.value, t) = Get(movies, t)
        /\ last.args = <<Absent, Absent, Absent>> => last.ret.value = movies

\* A filter with the minimum 7.0 and the years 2010..2010 kept an entry rated
\* exactly 7.0 and dropped the other entry.
C15_Witness ==
    /\ last.op = "filter_movies"
    /\ last.args = <<Some(70), Some(2010), Some(2010)>>
    /\ Len(movies) = 2
    /\ Len(last.ret.value) = 1
    /\ last.ret.value[1][2].rating = 70

\* The place of the title t in the list of pairs l.
PlaceOf(l, t) == CHOOSE i \in DOMAIN l : l[i][1] = t

\* In the list of pairs l the key a comes before the key b.
KeyBefore(l, by, a, b) == \E i, j \in DOMAIN l : i < j /\ l[i][2][by] = a /\ l[j][2][by] = b

\* C16: sort_movies by rating or year, descending or ascending, returns a
\* permutation of the entries of self.movies ordered by the field; the
\* distinct keys come in the reverse order of the other direction; and in
\* both directions entries with equal keys keep the order they have in
\* self.movies.
C16_Sort ==
    last.op = "sort_movies" =>
        LET by == last.args[1]
            desc == last.args[2]
            s == last.ret.value
            o == sort_movies(movies, disk, by, ~desc).ret.value
            keys == {movies[i][2][by] : i \in DOMAIN movies}
        IN  /\ Len(s) = Len(movies)
            /\ {s[i] : i \in DOMAIN s} = {movies[i] : i \in DOMAIN movies}
            /\ \A i, j \in DOMAIN s :
                 i < j => IF desc THEN s[i][2][by] >= s[j][2][by]
                                  ELSE s[i][2][by] <= s[j][2][by]
            /\ \A a, b \in keys : a # b => (KeyBefore(s, by, a, b) <=> KeyBefore(o, by, b, a))
            /\ \A i, j \in DOMAIN s :
                 (i < j /\ s[i][2][by] = s[j][2][by])
                     => PlaceOf(movies, s[i][1]) < PlaceOf(movies, s[j][1])

\* Two entries with the same year were sorted by year, descending.
C16_Witness ==
    /\ last.op = "sort_movies"
    /\ last.args = <<"year", TRUE>>
    /\ Len(movies) = 2
    /\ movies[1][2].year = movies[2][2].year

\* The lowercased query of the search that ran last, and its term.
QueryLower == Lower(last.args[1])

Term == Strip(Slice(QueryLower, 3, Len(QueryLower)))

\* The query is a y: query whose term int() rejects or an r: query whose
\* term float() rejects.
Malformed ==
    \/ StartsWith(QueryLower, PrefixY) /\ ~IntOk(Term)
    \/ StartsWith(QueryLower, PrefixR) /\ ~FloatOk(Term)

\* C17: search_movies returns None exactly when the query starts with y:
\* (in any case) and its stripped term is no integer, or with r: and its
\* stripped term is no number; every other query returns a list, and for a
\* y: (r:) query the list holds, in the order of self.movies, exactly the
\* entries whose year (rating) equals the term.
C17_SearchMalformed ==
    last.op = "search_movies" =>
        /\ (last.ret = ReturnNone) <=> Malformed
        /\ ~Malformed =>
             /\ last.ret.kind = "value"
             /\ StartsWith(QueryLower, PrefixY)
                    => last.ret.value = SelectSeq(movies, LAMBDA e : e[2].year = IntValue(Term))
             /\ StartsWith(QueryLower, PrefixR)
                    => last.ret.value = SelectSeq(movies, LAMBDA e : e[2].rating = FloatValue(Term))

\* The query "Y:1x" ran over a collection of two entries.
C17_Witness ==
    /\ last.op = "search_movies"
    /\ last.args[1] = <<"Y", ":", "1", "x">>
    /\ Len(movies) = 2

\* The entry e has an actor list with a name that, lowercased, contains the
\* term.
ActorMatches(e) ==
    /\ "actors" \in DOMAIN e[2]
    /\ \E i \in DOMAIN e[2].actors : Contains(Lower(e[2].actors[i]), Term)

\* C18: an a: query (in any case) returns a list with exactly the entries
\* that have an actor list with a name that, lowercased, contains the
\* stripped lowercased term; an entry without an actor list is never in it,
\* the query with the empty term included, and the call does not raise.
C18_SearchActor ==
    (last.op = "search_movies" /\ StartsWith(QueryLower, PrefixA))
        => /\ last.ret.kind = "value"
           /\ last.ret.value = SelectSeq(movies, ActorMatches)
           /\ \A i \in DOMAIN last.ret.value : "actors" \in DOMAIN last.ret.value[i][2]

\* The query "A:b" found the entry with the actor "B" next to an entry
\* without actors.
C18_Witness ==
    /\ last.op = "search_movies"
    /\ last.args[1] = <<"A", ":", "b">>
    /\ Len(movies) = 2
    /\ \E i \in 1..2 : "actors" \notin DOMAIN movies[i][2]
    /\ Len(last.ret.value) = 1

\* The rating of the payload of the last operation is absent, "N/A" or a
\* number.
RatingWellFormed ==
    ~HasRating \/ last.args[2].imdbRating = NA \/ FloatOk(last.args[2].imdbRating)

\* C19: add_movie_from_omdb for an absent title and a well-formed rating
\* never raises or fails on account of the year: the entry is stored with
\* the year 0 when the Year of the payload is absent or is not made of
\* decimal digits only, and with its integer value when it is.
C19_YearNeverFails ==
    (last.op = "add_movie_from_omdb" /\ ~Has(Pre, last.args[1]) /\ RatingWellFormed)
        => /\ last.ret = Return(TRUE, MsgAdded)
           /\ Has(movies, last.args[1])
           /\ Get(movies, last.args[1]).year =
                IF "Year" \in DOMAIN last.args[2] /\ AllDecimal(last.args[2].Year)
                THEN DecimalValue(last.args[2].Year)
                ELSE 0

\* The actor string of the payload of the last operation ("" by default).
ActorsStr == IF "Actors" \in DOMAIN last.args[2] THEN last.args[2].Actors ELSE EmptyStr

\* C20: after a successful add_movie_from_omdb the stored actors are the
\* pieces of the payload's actor string between its commas, each stripped,
\* in order and with repetitions kept; an absent or empty actor string gives
\* the list of one empty string, never the empty list; and the rating is 0
\* when the payload's rating is absent or "N/A".
C20_ActorsAndRating ==
    (last.op = "add_movie_from_omdb" /\ Succeeded)
        => LET r == Get(movies, last.args[1])
           IN  /\ Len(r.actors) = Cardinality({i \in DOMAIN ActorsStr : ActorsStr[i] = ","}) + 1
               /\ \A k \in DOMAIN r.actors : r.actors[k] = Strip(Split(ActorsStr)[k])
               /\ ActorsStr = EmptyStr => r.actors = <<EmptyStr>>
               /\ last.args[2] \in {PayloadNA, PayloadRated}
                    => r.actors = << <<"A">>, <<"B">>, <<"A">> >>
               /\ (~HasRating \/ last.args[2].imdbRating = NA) => r.rating = 0

\* The payload with the rating "N/A" and the actors "A, B,A " was added.
C20_Witness ==
    /\ last.op = "add_movie_from_omdb"
    /\ last.args[2] = PayloadNA
    /\ Succeeded
    /\ Len(movies) = 2

\* The online search that ran last contacted the provider.
Contacted == \E i \in DOMAIN last.io : last.io[i] = "requests.get"

\* The reply to the online search that ran last is an object with the
\* success flag.
Flagged ==
    /\ last.args[4].kind = "object"
    /\ "Response" \in DOMAIN last.args[4].data
    /\ last.args[4].data.Response = "True"

\* The config file of the online search that ran last gives no API key.
NoKey ==
    \/ last.args[3].kind # "object"
    \/ "api_key" \notin DOMAIN last.args[3].config
    \/ last.args[3].config.api_key = EmptyStr

\* C21: search_movie_online never raises and returns either (data, None) or
\* (None, text): data exactly when the provider was contacted and its reply
\* has "Response": "True"; without the requests library or without an API
\* key an error text and no contact; for a reply without the flag the Error
\* of the reply or "Movie not found."; for a failure of the transport the
\* descriptive text; and self.movies and the file stay as they were.
C21_SearchOnline ==
    last.op = "search_movie_online" =>
        /\ last.ret.kind = "pair"
        /\ (last.ret.data = Absent) # (last.ret.error = Absent)
        /\ (last.ret.data # Absent) <=> (Contacted /\ Flagged)
        /\ (last.args[2] = "missing" \/ NoKey) => (~Contacted /\ last.ret.error # Absent)
        /\ (Contacted /\ last.args[4].kind = "object" /\ ~Flagged)
              => last.ret.error = Some(IF "Error" \in DOMAIN last.args[4].data
                                       THEN last.args[4].data.Error
                                       ELSE MsgMovieNotFound)
        /\ (Contacted /\ last.args[4].kind \in {"exception", "status"})
              => last.ret.error = Some(MsgOnline)
        /\ movies = Pre
        /\ disk = last.pre.disk

\* C22: when the save of add_movie_manually, add_movie_from_omdb,
\* delete_movie, update_movie_title or update_movie_field fails, self.movies
\* after the operation is self.movies before it: the collection in memory
\* never holds a change that the file lacks.
C22_FailedSaveAppliesNothing ==
    (last.op \in MutatingOps /\ last.mode \in {"open_fails", "write_fails"})
        => movies = Pre

\* C23: update_movie_title with an old title and a new title that are both
\* absent from the collection returns no success, makes no entry under the
\* new title, saves nothing and leaves self.movies and the file as they
\* were.
C23_RenameAbsent ==
    (last.op = "update_movie_title" /\ ~Has(Pre, last.args[1]) /\ ~Has(Pre, last.args[2]))
        => /\ ~Succeeded
           /\ ~Has(movies, last.args[2])
           /\ last.io = <<>>
           /\ Untouched

\* An absent title was renamed to another absent title in a collection that
\* holds a third one.
C23_Witness ==
    /\ last.op = "update_movie_title"
    /\ last.args[1] # last.args[2]
    /\ ~Has(Pre, last.args[1])
    /\ ~Has(Pre, last.args[2])
    /\ Len(Pre) = 1
    /\ last.ret = Raise("KeyError")

\* The dicts a and b hold the same titles with the same records.
SameMapping(a, b) == Keys(a) = Keys(b) /\ \A k \in Keys(a) : Get(a, k) = Get(b, k)

\* The operation that ran last is the delete of the title that the operation
\* before it, a manual add, was called with, and that title was not in the
\* collection before the add.
DeletedWhatWasAdded ==
    /\ last.op = "delete_movie"
    /\ "prev" \in DOMAIN last
    /\ last.prev.op = "add_movie_manually"
    /\ last.prev.args[1] = last.args[1]
    /\ ~Has(last.prev.pre, last.args[1])

\* C24: add_movie_manually of a title that is not in the collection c
\* followed at once by delete_movie of that title: both return success, and
\* self.movies and the collection in the file are then, as mappings of
\* titles to records, equal to c; and an operation that returns a failure
\* (an add of a present title, a delete of an absent one, a rename onto a
\* present title) writes nothing to the file.
C24_AddThenDelete ==
    /\ DeletedWhatWasAdded =>
          /\ last.prev.ret = Return(TRUE, MsgAdded)
          /\ last.ret = Return(TRUE, MsgDeleted)
          /\ SameMapping(movies, last.prev.pre)
          /\ SameMapping(get_movies(disk), last.prev.pre)
    /\ (last.ret.kind = "return" /\ ~last.ret.success) =>
          /\ last.io = <<>>
          /\ disk = last.pre.disk

\* A title was added by hand to a collection of one entry and deleted again.
C24_Witness ==
    /\ DeletedWhatWasAdded
    /\ Len(last.prev.pre) = 1
    /\ last.ret = Return(TRUE, MsgDeleted)

\* C25: with two MovieManager objects over the same file, their methods
\* interleaved one whole method at a time, the collection in the file is
\* always self.movies of the object whose mutation succeeded last: its save
\* wrote the whole of its own copy, loaded once at its construction,
\* whatever the other object has written since.
C25_LastWriterWins ==
    last.writer \in Instances
        => /\ get_movies(disk) = MoviesOf(last.writer)
           /\ SameMapping(get_movies(disk), MoviesOf(last.writer))

\* "a" saved over a file that held the collection of "b", which has a title
\* that "a" does not have: that title is no longer in the file.
C25_Witness ==
    /\ last.op \in {"add_movie_manually", "delete_movie"}
    /\ last.who = "a"
    /\ last.writer = "a"
    /\ last.ret.kind = "return"
    /\ last.ret.success
    /\ get_movies(last.pre.disk) = other
    /\ \E t \in Keys(other) : ~Has(movies, t) /\ ~Has(get_movies(disk), t)

====
